---- MODULE Spec2Model ----
(***************************************************************************)
(* A model of two subsystems of partiql-lang-rust:                         *)
(*                                                                         *)
(*   - LogicalPlan<T> (partiql-logical/src/lib.rs): the append-only,       *)
(*     index-addressed operator graph, with its builder calls              *)
(*     add_operator / add_flow and its read accessors;                     *)
(*   - parse_partiql (partiql-parser/src/lalr/mod.rs): the wrapper that    *)
(*     drives the generated grammar, maps the accumulated and the fatal    *)
(*     grammar errors to line/character form and combines them.            *)
(*                                                                         *)
(* Spec      is the specification of the graph,                            *)
(* ParseSpec is the specification of one parse call over every grammar     *)
(*           outcome,                                                      *)
(* ConcSpec  is the specification of two interleaved parse calls.          *)
(***************************************************************************)
EXTENDS Integers, Sequences, FiniteSets

VARIABLES
    plans,          \* PlanIds -> [nodes, edges]: the LogicalPlan values
    passed,         \* PlanIds -> the nodes handed to add_operator, in call order
    minted,         \* PlanIds -> the OpIds add_operator returned, in call order
    call,           \* the last call on a plan and what it returned
    text,           \* Calls -> the source text `s` of the parse call
    pc,             \* Calls -> the position of the parse call
    offsets,        \* Calls -> the LineOffsetTracker of the call
    errors,         \* Calls -> the recoverable-error accumulator of the call
    parsed,         \* Calls -> the grammar's final result
    parser_errors,  \* Calls -> the mapped recoverable errors
    result,         \* Calls -> what parse_partiql returned
    grammar         \* the grammar's outcome for each text driven so far

planVars == <<plans, passed, minted, call>>
parseVars == <<text, pc, offsets, errors, parsed, parser_errors, result, grammar>>
vars == <<plans, passed, minted, call,
          text, pc, offsets, errors, parsed, parser_errors, result, grammar>>

(***************************************************************************)
(* Bounds of the model.                                                    *)
(***************************************************************************)
MaxOps == 2          \* add_operator calls per plan
MaxFlows == 2        \* edges per plan
MaxErrors == 2       \* recoverable errors accumulated by one drive (ParseSpec)
MaxConcErrors == 1   \* the same, per call, in ConcSpec

(***************************************************************************)
(*                         The logical plan graph                          *)
(***************************************************************************)

\* Two graphs: identifiers minted by one can be handed to the other.
PlanIds == {1, 2}

\* The graph the builder draws edges on; the other one only mints identifiers.
FlowPlans == {1}

\* Node payloads: two of the BindingsExpr variants (the graph is generic in T).
NodeKinds == {"OrderBy", "Output"}

\* The payloads each graph is given: the second graph serves as a source of
\* identifiers, and one payload is enough for it.
KindsOn(p) == IF p \in FlowPlans THEN NodeKinds ELSE {"Output"}

\* LogicalPlan::new()
new == [nodes |-> <<>>, edges |-> <<>>]

\* LogicalPlan::operator_count(): self.nodes.len()
operator_count(P) == Len(P.nodes)

\* LogicalPlan::operators(): &self.nodes
operators(P) == P.nodes

\* LogicalPlan::flows(): &self.edges
flows(P) == P.edges

\* A slip: the identifier is taken before the push (0-based).
add_operator_zero_based(P, op) ==
    [plan |-> [P EXCEPT !.nodes = Append(@, op)], id |-> operator_count(P)]

\* A slip: the node is inserted at the front of the node list.
add_operator_front(P, op) ==
    [plan |-> [P EXCEPT !.nodes = <<op>> \o @], id |-> operator_count(P) + 1]

\* LogicalPlan::add_operator(op): push, then OpId(self.operator_count()).
add_operator(P, op) ==
    LET pushed == [P EXCEPT !.nodes = Append(@, op)]
    IN  [plan |-> pushed, id |-> operator_count(pushed)]

\* A slip: the pair is pushed reversed.
add_flow_reversed(P, src, dst) ==
    IF src = 0 \/ dst = 0 \/ src - 1 > operator_count(P) \/ dst - 1 > operator_count(P)
    THEN [plan |-> P, status |-> "panic"]
    ELSE [plan |-> [P EXCEPT !.edges = Append(@, <<dst, src>>)], status |-> "ok"]

\* LogicalPlan::add_flow(src, dst).  `src.index() - 1` on usize: with index 0
\* a debug build panics on the subtraction and a release build wraps to
\* usize::MAX, which fails the assert; both builds fault.  Otherwise the two
\* asserts compare index - 1 with operator_count() using <=.
add_flow(P, src, dst) ==
    IF src = 0 \/ dst = 0
    THEN [plan |-> P, status |-> "panic"]
    ELSE LET src_idx == src - 1
             dst_idx == dst - 1
         IN  IF src_idx <= operator_count(P) /\ dst_idx <= operator_count(P)
             THEN [plan |-> [P EXCEPT !.edges = Append(@, <<src, dst>>)],
                   status |-> "ok"]
             ELSE [plan |-> P, status |-> "panic"]

\* The shape of `call`.
Call(op, p, node, src, dst, status, id, view) ==
    [op |-> op, plan |-> p, node |-> node, src |-> src, dst |-> dst,
     status |-> status, id |-> id, view |-> view]

NoCall == Call("none", 0, "", 0, 0, "ok", 0, <<>>)

\* The OpId values that exist: OpId's field is private, so every OpId was
\* returned by add_operator on some plan.
LiveOpIds == UNION {{minted[q][i] : i \in 1..Len(minted[q])} : q \in PlanIds}

PlanInit ==
    /\ plans = [p \in PlanIds |-> new]
    /\ passed = [p \in PlanIds |-> <<>>]
    /\ minted = [p \in PlanIds |-> <<>>]
    /\ call = NoCall

\* let id = p.add_operator(op)
AddOperator(p, op) ==
    /\ Len(passed[p]) < MaxOps
    /\ LET r == add_operator(plans[p], op)
       IN  /\ plans' = [plans EXCEPT ![p] = r.plan]
           /\ minted' = [minted EXCEPT ![p] = Append(@, r.id)]
           /\ call' = Call("add_operator", p, op, 0, 0, "ok", r.id, <<>>)
    /\ passed' = [passed EXCEPT ![p] = Append(@, op)]
    /\ UNCHANGED parseVars

\* p.add_flow(src, dst); a failed assert unwinds and leaves the plan as it was.
AddFlow(p, src, dst) ==
    /\ Len(plans[p].edges) < MaxFlows
    /\ LET r == add_flow(plans[p], src, dst)
       IN  /\ plans' = [plans EXCEPT ![p] = r.plan]
           /\ call' = Call("add_flow", p, "", src, dst, r.status, 0, <<>>)
    /\ UNCHANGED <<passed, minted>>
    /\ UNCHANGED parseVars

\* p.operator_count()
OperatorCount(p) ==
    /\ call' = Call("operator_count", p, "", 0, 0, "ok", operator_count(plans[p]), <<>>)
    /\ UNCHANGED <<plans, passed, minted>>
    /\ UNCHANGED parseVars

\* p.operators()
Operators(p) ==
    /\ call' = Call("operators", p, "", 0, 0, "ok", 0, operators(plans[p]))
    /\ UNCHANGED <<plans, passed, minted>>
    /\ UNCHANGED parseVars

\* p.flows()
Flows(p) ==
    /\ call' = Call("flows", p, "", 0, 0, "ok", 0, flows(plans[p]))
    /\ UNCHANGED <<plans, passed, minted>>
    /\ UNCHANGED parseVars

(***************************************************************************)
(*                           The parser wrapper                            *)
(***************************************************************************)

\* The parse calls in flight (ParseSpec uses the first only).
Calls == {1, 2}

\* Source texts, as sequences of one-byte characters: one line, and three lines.
OneLine == <<"a", " ", "a", "t", " ", "q">>
ThreeLines == <<"a", "\n", "a", "t", "\n", "q">>
Texts == {OneLine, ThreeLines}

\* ByteOffset -> BytePosition (`start.into()`), and a LineAndCharPosition.
BytePosition(off) == [form |-> "byte", line |-> 0, off |-> off]
LineAndCharPosition(line, char) == [form |-> "linechar", line |-> line, off |-> char]

\* ParserError<Loc>: kind, offending token (UnexpectedToken only), location range.
ParserError(kind, token, start, end) ==
    [kind |-> kind, token |-> token, start |-> start, end |-> end]

NoParserError == ParserError("none", "", BytePosition(0), BytePosition(0))

\* lalrpop_util::ParseError<ByteOffset, Token, ParserError<BytePosition>>
UnrecognizedToken(start, token, end) ==
    [kind |-> "UnrecognizedToken", token |-> token, start |-> start, end |-> end,
     user |-> NoParserError]
User(error) ==
    [kind |-> "User", token |-> "", start |-> 0, end |-> 0, user |-> error]
UnrecognizedEOF(location) ==
    [kind |-> "UnrecognizedEOF", token |-> "", start |-> location, end |-> location,
     user |-> NoParserError]
InvalidToken(location) ==
    [kind |-> "InvalidToken", token |-> "", start |-> location, end |-> location,
     user |-> NoParserError]
ExtraToken(start, token, end) ==
    [kind |-> "ExtraToken", token |-> token, start |-> start, end |-> end,
     user |-> NoParserError]

NoLalrpopError ==
    [kind |-> "none", token |-> "", start |-> 0, end |-> 0, user |-> NoParserError]

\* LalrpopResult: Ok(Box<ast::Expr>) or Err(LalrpopError).
ParsedOk(ast) == [ok |-> TRUE, ast |-> ast, err |-> NoLalrpopError]
ParsedErr(e) == [ok |-> FALSE, ast |-> "", err |-> e]
NoParsed == [ok |-> FALSE, ast |-> "", err |-> NoLalrpopError]

\* ParserResult, and the call that unwound instead of returning.
Ok(ast) == [kind |-> "Ok", ast |-> ast, errs |-> <<>>]
Err(errs) == [kind |-> "Err", ast |-> "", errs |-> errs]
Panicked == [kind |-> "panic", ast |-> "", errs |-> <<>>]
NoResult == [kind |-> "none", ast |-> "", errs |-> <<>>]

\* The syntax trees the grammar may hand back (opaque to the wrapper).
Trees == {"ast_a", "ast_b"}
ConcTrees == {"ast_a"}

\* The grammar errors a drive over text s may raise, one or two of each kind.
ErrorPool(s) ==
    { UnrecognizedToken(2, "At", 4),
      UnrecognizedToken(0, "Identifier", 1),
      User(ParserError("LexicalError", "", BytePosition(5), BytePosition(6))),
      UnrecognizedEOF(Len(s)),
      InvalidToken(0),
      ExtraToken(2, "At", 4) }

\* The smaller pool two interleaved calls draw from.
ConcErrorPool(s) ==
    { UnrecognizedToken(2, "At", 4),
      User(ParserError("LexicalError", "", BytePosition(5), BytePosition(6))),
      UnrecognizedEOF(Len(s)) }

SeqUpTo(S, n) == UNION {[1..k -> S] : k \in 0..n}

\* What grammar::QueryParser::new().parse(s, &mut errors, lexer) may leave:
\* its final result and the recoverable errors it pushed, in the order raised.
Outcomes(pool, trees, maxErr) ==
    { [parsed |-> p, errors |-> es] :
        p \in {ParsedOk(t) : t \in trees} \cup {ParsedErr(e) : e \in pool},
        es \in SeqUpTo(pool, maxErr) }

\* The outcomes of driving the grammar over each text.
QueryOutcomes == [s \in Texts |-> Outcomes(ErrorPool(s), Trees, MaxErrors)]
ConcQueryOutcomes ==
    [s \in Texts |-> Outcomes(ConcErrorPool(s), ConcTrees, MaxConcErrors)]

(***************************************************************************)
(* The position tracker: the line starts the lexer recorded while it       *)
(* scanned, and how far it scanned.  Resolution scans the text on demand   *)
(* past that point.                                                        *)
(***************************************************************************)
LineOffsetTracker_default == [starts |-> {0}, scanned |-> 0]

\* The line starts among the byte offsets lo+1 .. hi of s (offset i is the
\* byte s[i+1]; a line starts right after each newline).
LineStartsIn(s, lo, hi) == {i \in (lo + 1)..hi : i <= Len(s) /\ s[i] = "\n"}

\* The tracker after the lexer scanned s up to byte offset `upto`.
Scanned(s, upto) ==
    [starts |-> {0} \cup LineStartsIn(s, 0, upto), scanned |-> upto]

SetMax(S) == CHOOSE m \in S : \A x \in S : x <= m

\* LineOffsetTracker::at(s, byte_loc): the zero-based line and the character
\* within the line (the texts are single-byte, so characters are bytes).
at(s, tracker, byte_loc) ==
    LET starts == tracker.starts \cup LineStartsIn(s, tracker.scanned, byte_loc.off)
        before == {st \in starts : st <= byte_loc.off}
    IN  LineAndCharPosition(Cardinality(before) - 1, byte_loc.off - SetMax(before))

\* ParserError::map_loc(f): the same error with f applied to both ends.
map_loc(e, f) == [e EXCEPT !.start = f[@], !.end = f[@]]

\* impl From<LalrpopError> for ParserError<BytePosition>
from(error) ==
    CASE error.kind = "UnrecognizedToken" ->
            [status |-> "ok",
             error |-> ParserError("UnexpectedToken", error.token,
                                   BytePosition(error.start), BytePosition(error.end))]
      [] error.kind = "User" -> [status |-> "ok", error |-> error.user]
      [] OTHER -> [status |-> "todo", error |-> NoParserError]

\* parse_partiql::map_error: ParserError::from(e).map_loc(|l| offsets.at(s, l));
\* todo!() unwinds before map_loc runs.
map_error(s, tracker, e) ==
    LET r == from(e)
        resolve == [byte_loc \in {r.error.start, r.error.end} |->
                       at(s, tracker, byte_loc)]
    IN  IF r.status = "todo"
        THEN [status |-> "panic", error |-> NoParserError]
        ELSE [status |-> "ok", error |-> map_loc(r.error, resolve)]

\* errors.into_iter().map(|e| map_error(s, &offsets, e.error)).collect()
map_recoverable(s, tracker, errs) ==
    LET mapped == [i \in 1..Len(errs) |-> map_error(s, tracker, errs[i])]
    IN  IF \E i \in 1..Len(errs) : mapped[i].status = "panic"
        THEN [status |-> "panic", errors |-> <<>>]
        ELSE [status |-> "ok", errors |-> [i \in 1..Len(errs) |-> mapped[i].error]]

\* A slip: the fatal error is put in front of the recoverable ones.
combine_fatal_first(s, tracker, parsedv, mappedv) ==
    IF parsedv.ok
    THEN IF mappedv = <<>> THEN Ok(parsedv.ast) ELSE Err(mappedv)
    ELSE LET f == map_error(s, tracker, parsedv.err)
         IN  IF f.status = "panic" THEN Panicked ELSE Err(<<f.error>> \o mappedv)

\* The match on (parsed, parser_errors.is_empty()) that ends parse_partiql.
combine(s, tracker, parsedv, mappedv) ==
    IF parsedv.ok
    THEN IF mappedv = <<>> THEN Ok(parsedv.ast) ELSE Err(mappedv)
    ELSE LET f == map_error(s, tracker, parsedv.err)
         IN  IF f.status = "panic"
             THEN Panicked
             ELSE IF mappedv = <<>> THEN Err(<<f.error>>)
                                    ELSE Err(Append(mappedv, f.error))

\* A slip: one accumulator shared by every call.
accumulator_shared(errs, c) == errs[1]

\* `let mut errors = vec![]`: the accumulator is a local of the call.
accumulator(errs, c) == errs[c]

\* How far the lexer got: to the end of the text when the grammar accepted,
\* to the end of the offending token when it gave up.
ScannedBy(s, o) == IF o.parsed.ok THEN Len(s) ELSE o.parsed.err.end

ParseIdle ==
    /\ text = [c \in Calls |-> <<>>]
    /\ pc = [c \in Calls |-> "idle"]
    /\ offsets = [c \in Calls |-> LineOffsetTracker_default]
    /\ errors = [c \in Calls |-> <<>>]
    /\ parsed = [c \in Calls |-> NoParsed]
    /\ parser_errors = [c \in Calls |-> <<>>]
    /\ result = [c \in Calls |-> NoResult]
    /\ grammar = <<>>

\* parse_partiql(s) is entered: a fresh tracker, an empty accumulator, a lexer.
Start(c, s) ==
    /\ pc[c] = "idle"
    /\ text' = [text EXCEPT ![c] = s]
    /\ offsets' = [offsets EXCEPT ![c] = LineOffsetTracker_default]
    /\ errors' = [errors EXCEPT ![c] = <<>>]
    /\ pc' = [pc EXCEPT ![c] = "drive"]
    /\ UNCHANGED <<parsed, parser_errors, result, grammar>>
    /\ UNCHANGED planVars

\* The grammar is driven over the lexer.  It is a table: a text driven before
\* gets the outcome it got then.
Drive(c, outcomes) ==
    /\ pc[c] = "drive"
    /\ LET s == text[c]
       IN  \E o \in (IF s \in DOMAIN grammar THEN {grammar[s]}
                                              ELSE outcomes[s]) :
             /\ grammar' = [t \in DOMAIN grammar \cup {s} |->
                               IF t = s THEN o ELSE grammar[t]]
             /\ parsed' = [parsed EXCEPT ![c] = o.parsed]
             /\ errors' = [errors EXCEPT ![c] = o.errors]
             /\ offsets' = [offsets EXCEPT ![c] = Scanned(s, ScannedBy(s, o))]
    /\ pc' = [pc EXCEPT ![c] = "map"]
    /\ UNCHANGED <<text, parser_errors, result>>
    /\ UNCHANGED planVars

\* The accumulated errors are mapped; todo!() unwinds the call.
MapRecoverable(c) ==
    /\ pc[c] = "map"
    /\ LET m == map_recoverable(text[c], offsets[c], accumulator(errors, c))
       IN  IF m.status = "panic"
           THEN /\ result' = [result EXCEPT ![c] = Panicked]
                /\ pc' = [pc EXCEPT ![c] = "panicked"]
                /\ UNCHANGED parser_errors
           ELSE /\ parser_errors' = [parser_errors EXCEPT ![c] = m.errors]
                /\ pc' = [pc EXCEPT ![c] = "match"]
                /\ UNCHANGED result
    /\ UNCHANGED <<text, offsets, errors, parsed, grammar>>
    /\ UNCHANGED planVars

\* The final match; mapping the fatal error may unwind as well.
Match(c) ==
    /\ pc[c] = "match"
    /\ LET r == combine(text[c], offsets[c], parsed[c], parser_errors[c])
       IN  /\ result' = [result EXCEPT ![c] = r]
           /\ pc' = [pc EXCEPT ![c] = IF r.kind = "panic" THEN "panicked" ELSE "done"]
    /\ UNCHANGED <<text, offsets, errors, parsed, parser_errors, grammar>>
    /\ UNCHANGED planVars

(***************************************************************************)
(*                           The specifications                            *)
(***************************************************************************)
Init == PlanInit /\ ParseIdle

Next ==
    \/ \E p \in PlanIds : \E op \in KindsOn(p) : AddOperator(p, op)
    \/ \E p \in FlowPlans, src \in LiveOpIds, dst \in LiveOpIds : AddFlow(p, src, dst)
    \/ \E p \in PlanIds : OperatorCount(p)
    \/ \E p \in PlanIds : Operators(p)
    \/ \E p \in PlanIds : Flows(p)

Spec == Init /\ [][Next]_vars

ParseNext ==
    \/ \E s \in Texts : Start(1, s)
    \/ Drive(1, QueryOutcomes)
    \/ MapRecoverable(1)
    \/ Match(1)

ParseSpec == Init /\ [][ParseNext]_vars

ConcNext ==
    \E c \in Calls :
        \/ \E s \in Texts : Start(c, s)
        \/ Drive(c, ConcQueryOutcomes)
        \/ MapRecoverable(c)
        \/ Match(c)

ConcSpec == Init /\ [][ConcNext]_vars

(***************************************************************************)
(*                      Properties of the plan graph                       *)
(***************************************************************************)

\* A step that is the call `op` on plan p (every call records itself).
Called(op, p) == call'.op = op /\ call'.plan = p

\* C1: after any sequence of add_operator / add_flow calls, operator_count()
\* is the number of add_operator calls made and both endpoints of every pair
\* of flows() lie in 1..operator_count(), whichever OpIds were passed.
C1_CountAndEndpointsInRange ==
    \A p \in PlanIds :
        /\ operator_count(plans[p]) = Len(passed[p])
        /\ \A i \in 1..Len(flows(plans[p])) : \A k \in {1, 2} :
              /\ flows(plans[p])[i][k] >= 1
              /\ flows(plans[p])[i][k] <= operator_count(plans[p])

\* C2: add_flow(src, dst) with src or dst beyond operator_count() (not minted
\* by this graph) faults, appends no pair and leaves nodes and edges as they were.
C2_UnmintedFlowFaults ==
    [][\A p \in PlanIds :
          (/\ Called("add_flow", p)
           /\ \/ call'.src > operator_count(plans[p])
              \/ call'.dst > operator_count(plans[p]))
          => (call'.status = "panic" /\ plans' = plans)]_vars

\* C3: the N-th add_operator on a plan returns the OpId with index N, whatever
\* add_flow calls come in between: the identifiers are 1, 2, 3, ... and no two
\* are equal.
C3_IdsInCreationOrder ==
    \A p \in PlanIds :
        /\ Len(minted[p]) = Len(passed[p])
        /\ \A k \in 1..Len(minted[p]) : minted[p][k] = k
        /\ \A j, k \in 1..Len(minted[p]) : minted[p][j] = minted[p][k] => j = k
        /\ (call.op = "add_operator" /\ call.plan = p) => call.id = Len(passed[p])

\* C3 witness: a second add_operator after an add_flow on the same plan.
C3_Witness ==
    /\ call.op = "add_operator" /\ call.plan = 1 /\ call.id = 2
    /\ Len(flows(plans[1])) >= 1

\* C4: flows() is the sequence of pairs of the successful add_flow calls in
\* call order: a successful add_flow appends its pair at the end, pairs of
\* identifiers of this graph are always accepted (duplicates, self-loops and
\* cycles included), and no other call touches flows().
C4_FlowsInCallOrder ==
    [][\A p \in PlanIds :
          /\ IF Called("add_flow", p) /\ call'.status = "ok"
             THEN flows(plans'[p]) = Append(flows(plans[p]), <<call'.src, call'.dst>>)
             ELSE flows(plans'[p]) = flows(plans[p])
          /\ (/\ Called("add_flow", p)
              /\ call'.src \in 1..operator_count(plans[p])
              /\ call'.dst \in 1..operator_count(plans[p]))
             => call'.status = "ok"]_vars

\* C4 witness: a self-loop added twice, followed by nothing else.
C4_Witness ==
    /\ call.op = "add_flow" /\ call.status = "ok"
    /\ operator_count(plans[1]) = 1
    /\ flows(plans[1]) = << <<1, 1>>, <<1, 1>> >>

\* C9: operators()[k-1] is the node handed to the k-th add_operator; that call
\* appends one node and leaves flows() alone, add_flow leaves the node list
\* and the count alone, and the read accessors change nothing.
C9_NodesAppendOnly ==
    /\ [](\A p \in PlanIds : operators(plans[p]) = passed[p])
    /\ [][\A p \in PlanIds :
            /\ Called("add_operator", p) =>
                  /\ operators(plans'[p]) = Append(operators(plans[p]), call'.node)
                  /\ flows(plans'[p]) = flows(plans[p])
            /\ Called("add_flow", p) =>
                  /\ operators(plans'[p]) = operators(plans[p])
                  /\ operator_count(plans'[p]) = operator_count(plans[p])
            /\ call'.op \in {"operator_count", "operators", "flows"} =>
                  plans' = plans
            /\ ~Called("add_operator", p) =>
                  operators(plans'[p]) = operators(plans[p])]_vars

\* C9 witness: two different nodes and an edge, read back through operators().
C9_Witness ==
    /\ call.op = "operators" /\ call.plan = 1
    /\ call.view = <<"Output", "OrderBy">>
    /\ Len(flows(plans[1])) >= 1

(***************************************************************************)
(*                    Properties of the parser wrapper                     *)
(***************************************************************************)

Finished(c) == pc[c] \in {"done", "panicked"}

\* The position of byte offset off in s, counted from the text alone.
TruePosition(s, off) ==
    LET nl == {i \in 1..off : s[i] = "\n"}
    IN  LineAndCharPosition(Cardinality(nl), off - (IF nl = {} THEN 0 ELSE SetMax(nl)))

Handled(e) == e.kind \in {"UnrecognizedToken", "User"}

\* The report of a handled grammar error e of a parse of s.
Reported(s, e) ==
    IF e.kind = "UnrecognizedToken"
    THEN ParserError("UnexpectedToken", e.token,
                     TruePosition(s, e.start), TruePosition(s, e.end))
    ELSE ParserError(e.user.kind, e.user.token,
                     TruePosition(s, e.user.start.off), TruePosition(s, e.user.end.off))

\* r reports e: exactly, for the handled kinds; in resolved form, for the rest.
IsReportOf(s, e, r) ==
    IF Handled(e) THEN r = Reported(s, e)
                  ELSE r.start.form = "linechar" /\ r.end.form = "linechar"

\* The grammar conditions of call c in the order raised, the fatal one last.
Conditions(c) ==
    errors[c] \o (IF parsed[c].ok THEN <<>> ELSE <<parsed[c].err>>)

\* C5: parse_partiql returns Ok(tree) iff the grammar returned a tree and the
\* accumulator is empty; a tree with accumulated errors gives Err of exactly
\* the resolved recoverable errors.
C5_OkIffTreeAndNoErrors ==
    \A c \in Calls : Finished(c) =>
        /\ (result[c].kind = "Ok") <=> (parsed[c].ok /\ errors[c] = <<>>)
        /\ result[c].kind = "Ok" => result[c].ast = parsed[c].ast
        /\ (parsed[c].ok /\ errors[c] # <<>>) =>
              /\ result[c].kind = "Err"
              /\ Len(result[c].errs) = Len(errors[c])
              /\ \A i \in 1..Len(errors[c]) :
                    IsReportOf(text[c], errors[c][i], result[c].errs[i])

\* C5, for the calls that return: the combination table of the two tree rows.
C5_ReturnedTable ==
    \A c \in Calls : pc[c] = "done" =>
        /\ (result[c].kind = "Ok") <=> (parsed[c].ok /\ errors[c] = <<>>)
        /\ result[c].kind = "Ok" => result[c].ast = parsed[c].ast
        /\ (parsed[c].ok /\ errors[c] # <<>>) =>
              /\ result[c].kind = "Err"
              /\ Len(result[c].errs) = Len(errors[c])
              /\ \A i \in 1..Len(errors[c]) :
                    result[c].errs[i] = Reported(text[c], errors[c][i])

\* C6: a returned Err(list) is the recoverable errors in the order raised,
\* then the fatal error iff the grammar result was one: its length is their
\* number, it is not empty, nothing is dropped, doubled or out of order.
C6_ErrListOrder ==
    \A c \in Calls : (pc[c] = "done" /\ result[c].kind = "Err") =>
        LET list == result[c].errs
            n == Len(errors[c])
        IN  /\ Len(list) = n + (IF parsed[c].ok THEN 0 ELSE 1)
            /\ Len(list) >= 1
            /\ \A i \in 1..n : IsReportOf(text[c], errors[c][i], list[i])
            /\ ~parsed[c].ok => IsReportOf(text[c], parsed[c].err, list[n + 1])

\* C6 witness: two different recoverable errors and a third, fatal one.
C6_Witness ==
    /\ pc[1] = "done" /\ result[1].kind = "Err"
    /\ errors[1] = << UnrecognizedToken(2, "At", 4),
                      User(ParserError("LexicalError", "", BytePosition(5), BytePosition(6))) >>
    /\ parsed[1] = ParsedErr(UnrecognizedToken(0, "Identifier", 1))
    /\ text[1] = ThreeLines

\* C7: whatever the grammar's outcome, parse_partiql returns Ok or Err; no
\* grammar-error kind, fatal or accumulated, unwinds the call.
C7_NeverAborts ==
    \A c \in Calls :
        /\ pc[c] # "panicked"
        /\ pc[c] = "done" => result[c].kind \in {"Ok", "Err"}

\* C8: every unrecognized-token condition, fatal or recoverable, is reported
\* as one UnexpectedToken with the same token and the resolved span; every
\* user error is reported with its kind and only its location resolved; every
\* returned error is in line/character form.
C8_ConditionsReported ==
    \A c \in Calls : Finished(c) =>
        LET conds == Conditions(c)
            list == result[c].errs
        IN  /\ \A i \in 1..Len(conds) : Handled(conds[i]) =>
                  /\ result[c].kind = "Err"
                  /\ i <= Len(list)
                  /\ list[i] = Reported(text[c], conds[i])
            /\ \A i \in 1..Len(list) :
                  list[i].start.form = "linechar" /\ list[i].end.form = "linechar"
            /\ result[c].kind = "Err" =>
                  Cardinality({i \in 1..Len(list) : list[i].kind = "UnexpectedToken"})
                    = Cardinality({i \in 1..Len(conds) : conds[i].kind = "UnrecognizedToken"})

\* C8, for the calls that return: the mapping of each condition.
C8_ReturnedMapping ==
    \A c \in Calls : pc[c] = "done" =>
        LET conds == Conditions(c)
            list == result[c].errs
        IN  /\ conds # <<>> => (result[c].kind = "Err" /\ Len(list) = Len(conds))
            /\ \A i \in 1..Len(conds) : list[i] = Reported(text[c], conds[i])

\* What a parse of s returns when the grammar's outcome is o and nothing else
\* runs: the table of the four cases over the reports, or no return at all
\* when a condition is of a kind the mapping does not handle.
AloneResult(s, o) ==
    LET conds == o.errors \o (IF o.parsed.ok THEN <<>> ELSE <<o.parsed.err>>)
    IN  IF \E i \in 1..Len(conds) : ~Handled(conds[i])
        THEN Panicked
        ELSE IF conds = <<>>
             THEN Ok(o.parsed.ast)
             ELSE Err([i \in 1..Len(conds) |-> Reported(s, conds[i])])

\* C10: under any interleaving of parse calls each call ends as it would
\* alone, so no error of one call shows up in another, and two parses of the
\* same text end alike.
C10_CallsSelfContained ==
    /\ \A c \in Calls : Finished(c) =>
          result[c] = AloneResult(text[c], grammar[text[c]])
    /\ \A c, d \in Calls :
          (Finished(c) /\ Finished(d) /\ text[c] = text[d]) => result[c] = result[d]

\* C10 witness: two calls on different texts, one returned an error the other
\* never raised, the other a tree.
C10_Witness ==
    /\ pc[1] = "done" /\ pc[2] = "done"
    /\ text[1] # text[2]
    /\ result[1].kind = "Err" /\ Len(result[1].errs) = 1
    /\ result[2].kind = "Ok"

====
